---- MODULE Spec2Model ----
(***************************************************************************)
(* Model of the wendor-placement relay (src/backend/server.js): the single *)
(* upstream link to the vending-machine controller (VMC), the pending      *)
(* command queue, the broadcast to downstream browser sockets and the      *)
(* /api/pay endpoint.  Sockets follow the `ws` library's readyState        *)
(* protocol: send() throws while CONNECTING, transmits while OPEN and      *)
(* silently discards the data while CLOSING or CLOSED (no callback given). *)
(* The second part models the browser side (src/frontend/src/App.tsx): the *)
(* state of the Products component that the events of the relay drive.     *)
(***************************************************************************)
EXTENDS Integers, Sequences, FiniteSets, TLC

\* ---------------------------------------------------------------- bounds
\* upstream socket objects that exist at once (closed, unreferenced ones are freed)
MaxSockets == 2
\* reconnect timers pending at once
MaxTimers == 2
\* commands waiting in pendingMessagesQueue
MaxQueue == 2
\* downstream client sockets registered at once
MaxClients == 2
\* steps of one browser session (events, timer callbacks, clicks) that are followed
MaxSteps == 4

Slots == 1..MaxSockets
ClientIds == 1..MaxClients
\* vmcSocket = null
NULL == 0

VARIABLES
    listening,              \* the server.listen callback has run
    crashed,                \* an exception escaped an event handler: the process is gone
    sock,                   \* readyState of each upstream socket object ("NONE": no such
                            \* object); the objects are named by role, see Renamed
    vmcSocket,              \* let vmcSocket
    vmcConnected,           \* let vmcConnected
    vmcReconnectScheduled,  \* let vmcReconnectScheduled
    pendingMessagesQueue,   \* let pendingMessagesQueue
    timers,                 \* setTimeout callbacks of scheduleVmcReconnect not yet fired
    wire,                   \* commands the latest step transmitted to the VMC, in order
    dropped,                \* commands the latest step handed to send() on a socket that
                            \* was not open: ws discards them
    clientState,            \* readyState of each socket of wss.clients, which are named by
                            \* their place in the set's insertion order ("NONE": no such socket)
    inbox,                  \* frames the latest step delivered to each downstream client
    sendFailed,             \* downstream clients on which a write of the latest step failed
    res,                    \* the HTTP response of the latest step (status 0: none)
    received,               \* the frame the latest step's upstream message handler was
                            \* given (NoFrame: the step ran no message handler)
    isVending,              \* Products: const [isVending, setIsVending]
    activeMessage,          \* Products: const [activeMessage, setActiveMessage], the toast
    modal,                  \* Products: const [modal, setModal], the overlay
    toastTimeout,           \* the timeout of toastTimeoutRef is pending
    modalTimer,             \* the timeout of modalTimerRef is pending
    timerToast,             \* the toast text the pending toast timeout was armed for
    log                     \* the steps of the browser session so far: what happened, the
                            \* phase it left and the toast text it displayed ("": none)

relayVars == <<crashed, sock, vmcSocket, vmcConnected, vmcReconnectScheduled,
               pendingMessagesQueue, timers>>
hubVars == <<clientState>>
serverVars == <<listening, crashed, sock, vmcSocket, vmcConnected, vmcReconnectScheduled,
                pendingMessagesQueue, timers, wire, dropped, clientState, inbox,
                sendFailed, res, received>>
uiVars == <<isVending, activeMessage, modal, toastTimeout, modalTimer, timerToast, log>>
vars == <<listening, crashed, sock, vmcSocket, vmcConnected, vmcReconnectScheduled,
          pendingMessagesQueue, timers, wire, dropped, clientState, inbox,
          sendFailed, res, received, isVending, activeMessage, modal, toastTimeout,
          modalTimer, timerToast, log>>

\* ------------------------------------------------------------- the relay
\* the relay's module-level state as one value, so that a handler is a function of it;
\* wire and dropped start empty: they record what the handler does with send()
Relay ==
    [crashed |-> crashed, sock |-> sock, vmcSocket |-> vmcSocket,
     vmcConnected |-> vmcConnected, vmcReconnectScheduled |-> vmcReconnectScheduled,
     queue |-> pendingMessagesQueue, timers |-> timers, wire |-> <<>>,
     dropped |-> <<>>]

\* a closed socket object nothing refers to any more is garbage
Release(rs, cur) ==
    [s \in Slots |-> IF rs[s] = "CLOSED" /\ s # cur THEN "NONE" ELSE rs[s]]

\* The socket objects differ only in their readyState and in which of them vmcSocket
\* refers to (the handlers of all of them act on the global vmcSocket), so a state names
\* them by role: 1 is the object vmcSocket refers to, and the superseded objects follow,
\* connecting ones first, then open ones, then closing ones.
Renamed(rs, cur) ==
    LET live == Release(rs, cur)
        n(k) == Cardinality({s \in Slots \ {cur} : live[s] = k})
    IN [i \in Slots |->
          IF i = 1 THEN (IF cur = NULL THEN "NONE" ELSE live[cur])
          ELSE IF i - 1 <= n("CONNECTING") THEN "CONNECTING"
          ELSE IF i - 1 <= n("CONNECTING") + n("OPEN") THEN "OPEN"
          ELSE IF i - 1 <= n("CONNECTING") + n("OPEN") + n("CLOSING") THEN "CLOSING"
          ELSE "NONE"]

SetRelay(r) ==
    /\ crashed' = r.crashed
    /\ sock' = Renamed(r.sock, r.vmcSocket)
    /\ vmcSocket' = IF r.vmcSocket = NULL THEN NULL ELSE 1
    /\ vmcConnected' = r.vmcConnected
    /\ vmcReconnectScheduled' = r.vmcReconnectScheduled
    /\ pendingMessagesQueue' = r.queue
    /\ timers' = r.timers
    /\ wire' = r.wire
    /\ dropped' = r.dropped

Min(S) == CHOOSE x \in S : \A y \in S : x <= y

\* a slot for `new WebSocket(...)`: an unused one, or the one vmcSocket is about to leave
FreeSlots(r) == {s \in Slots : r.sock[s] \in {"NONE", "CLOSED"}}

\* the early return of ensureVmcConnection
AlreadyConnected(r) ==
    r.vmcConnected /\ r.vmcSocket # NULL /\ r.sock[r.vmcSocket] = "OPEN"

ensureVmcConnection(r) ==
    IF AlreadyConnected(r) THEN r
    ELSE LET n == Min(FreeSlots(r))
         IN [r EXCEPT !.sock = [Release(r.sock, NULL) EXCEPT ![n] = "CONNECTING"],
                      !.vmcSocket = n]

\* the model can follow ensureVmcConnection only while a socket slot is left
CanEnsure(r) == AlreadyConnected(r) \/ FreeSlots(r) # {}

\* a scheduling that raises the flag and arms no timer
scheduleWithoutTimer(r) == [r EXCEPT !.vmcReconnectScheduled = TRUE]

scheduleVmcReconnect(r) ==
    IF r.vmcReconnectScheduled THEN r
    ELSE [r EXCEPT !.vmcReconnectScheduled = TRUE, !.timers = @ + 1]

CanSchedule(r) == r.vmcReconnectScheduled \/ r.timers < MaxTimers

\* vmcSocket.send(JSON.stringify(msg)) of the ws library
vmcSend(r, msg) ==
    CASE r.sock[r.vmcSocket] = "CONNECTING" -> [r EXCEPT !.crashed = TRUE]
      [] r.sock[r.vmcSocket] = "OPEN" -> [r EXCEPT !.wire = Append(@, msg)]
      [] OTHER -> [r EXCEPT !.dropped = Append(@, msg)]

\* pendingMessagesQueue.forEach((msg) => vmcSocket.send(...)): a throw ends the loop
RECURSIVE flush(_, _)
flush(r, msgs) ==
    IF msgs = <<>> THEN r
    ELSE LET r1 == vmcSend(r, Head(msgs))
         IN IF r1.crashed THEN r1 ELSE flush(r1, Tail(msgs))

\* an open handler that sends the queued commands and forgets to empty the queue
onOpenKeepsQueue(r) ==
    flush([r EXCEPT !.vmcConnected = TRUE, !.vmcReconnectScheduled = FALSE], r.queue)

\* vmcSocket.on('open', ...)
onOpen(r) ==
    LET r1 == [r EXCEPT !.vmcConnected = TRUE, !.vmcReconnectScheduled = FALSE]
        r2 == flush(r1, r1.queue)
    IN IF r2.crashed THEN r2 ELSE [r2 EXCEPT !.queue = <<>>]

\* vmcSocket.on('close', ...)
onClose(r) == scheduleVmcReconnect([r EXCEPT !.vmcConnected = FALSE])

\* vmcSocket.on('error', ...)
onError(r) == scheduleVmcReconnect([r EXCEPT !.vmcConnected = FALSE])

\* the setTimeout callback of scheduleVmcReconnect
onTimer(r) == ensureVmcConnection([r EXCEPT !.vmcReconnectScheduled = FALSE])

\* a routing that trusts the vmcConnected flag instead of the socket's readyState
sendOrQueueByFlag(r, cmd) ==
    IF r.vmcSocket # NULL /\ r.vmcConnected
    THEN vmcSend(r, cmd)
    ELSE [r EXCEPT !.queue = Append(@, cmd)]

\* if (vmcSocket && vmcSocket.readyState === OPEN) send else push
sendOrQueue(r, cmd) ==
    IF r.vmcSocket # NULL /\ r.sock[r.vmcSocket] = "OPEN"
    THEN vmcSend(r, cmd)
    ELSE [r EXCEPT !.queue = Append(@, cmd)]

statusCommand == [type |-> "status"]

\* no frame at all (the value of received when no message handler ran)
NoFrame == [wellFormed |-> FALSE, text |-> "none", spaced |-> FALSE]

Init ==
    /\ listening = FALSE
    /\ crashed = FALSE
    /\ sock = [s \in Slots |-> "NONE"]
    /\ vmcSocket = NULL
    /\ vmcConnected = FALSE
    /\ vmcReconnectScheduled = FALSE
    /\ pendingMessagesQueue = <<>>
    /\ timers = 0
    /\ wire = <<>>
    /\ dropped = <<>>
    /\ clientState = [c \in ClientIds |-> "NONE"]
    /\ inbox = [c \in ClientIds |-> <<>>]
    /\ sendFailed = {}
    /\ res = [status |-> 0]
    /\ received = NoFrame
    /\ isVending = FALSE
    /\ activeMessage = ""
    /\ modal = [open |-> FALSE, stage |-> "idle", text |-> ""]
    /\ toastTimeout = FALSE
    /\ modalTimer = FALSE
    /\ timerToast = ""
    /\ log = <<>>

\* ------------------------------------------------------ the broadcast hub
\* A frame is a text: the JSON value it denotes (when it is well formed) and whether
\* the text has white space between its tokens.  JSON.stringify writes the value without
\* white space; JSON.parse reads the value whatever the spacing and throws on a
\* malformed text.
JSONstringify(obj) == [wellFormed |-> TRUE, text |-> obj, spaced |-> FALSE]
JSONparse(frame) ==
    IF frame.wellFormed THEN [ok |-> TRUE, value |-> frame.text] ELSE [ok |-> FALSE]

\* frames the VMC sends: a status event written with white space, an event of a type
\* the protocol does not name, and a text that is not JSON
VmcFrames ==
    { [wellFormed |-> TRUE, text |-> [type |-> "status", status |-> "vending"],
       spaced |-> TRUE],
      JSONstringify([type |-> "telemetry", status |-> "door-open"]),
      [wellFormed |-> FALSE, text |-> "garbage", spaced |-> FALSE] }

backendStatus == [type |-> "backend-status", message |-> "connected"]

\* the downstream sockets as one value; inbox and sendFailed start empty: they record
\* what the handler does with send()
Hub ==
    [clientState |-> clientState, inbox |-> [c \in ClientIds |-> <<>>], sendFailed |-> {},
     received |-> NoFrame]

\* a step that runs no relay code on the upstream, on the clients, on /api/pay
RelayIdle == UNCHANGED relayVars /\ wire' = <<>> /\ dropped' = <<>>
HubIdle ==
    /\ UNCHANGED hubVars
    /\ inbox' = [c \in ClientIds |-> <<>>] /\ sendFailed' = {} /\ received' = NoFrame
NoResponse == res' = [status |-> 0]

SetHub(h) ==
    /\ clientState' = h.clientState
    /\ inbox' = h.inbox
    /\ sendFailed' = h.sendFailed
    /\ received' = h.received

\* client.send(payload) on an open downstream socket: the frame is written, or the
\* transport write fails (c \in F), which ws reports by closing the socket, not by throwing
clientSend(h, c, payload, F) ==
    IF c \in F
    THEN [h EXCEPT !.clientState[c] = "CLOSING", !.sendFailed = @ \cup {c}]
    ELSE [h EXCEPT !.inbox[c] = Append(@, payload)]

\* a broadcast that gives up at the first client that is not open
RECURSIVE broadcastStopsAtClosed(_, _, _, _)
broadcastStopsAtClosed(h, order, payload, F) ==
    IF order = <<>> \/ h.clientState[Head(order)] # "OPEN" THEN h
    ELSE broadcastStopsAtClosed(clientSend(h, Head(order), payload, F),
                                Tail(order), payload, F)

\* a broadcast that gives up at the first client whose write fails
RECURSIVE broadcastStopsAtFailure(_, _, _, _)
broadcastStopsAtFailure(h, order, payload, F) ==
    IF order = <<>> THEN h
    ELSE LET c == Head(order)
         IN IF h.clientState[c] # "OPEN"
            THEN broadcastStopsAtFailure(h, Tail(order), payload, F)
            ELSE IF c \in F THEN clientSend(h, c, payload, F)
            ELSE broadcastStopsAtFailure(clientSend(h, c, payload, F),
                                         Tail(order), payload, F)

\* wss.clients.forEach((client) => { if (client.readyState === OPEN) client.send(payload) })
RECURSIVE broadcastToFrontend(_, _, _, _)
broadcastToFrontend(h, order, payload, F) ==
    IF order = <<>> THEN h
    ELSE LET c == Head(order)
             h1 == IF h.clientState[c] = "OPEN" THEN clientSend(h, c, payload, F) ELSE h
         IN broadcastToFrontend(h1, Tail(order), payload, F)

\* a message handler that passes on what it cannot parse
onMessageForwardsRaw(h, order, data, F) ==
    LET parsed == JSONparse(data)
    IN broadcastToFrontend(h, order,
                           IF parsed.ok THEN JSONstringify(parsed.value) ELSE data, F)

\* vmcSocket.on('message', ...): parse, broadcast, ignore what is thrown
onMessage(h, order, data, F) ==
    LET parsed == JSONparse(data)
    IN IF parsed.ok
       THEN broadcastToFrontend(h, order, JSONstringify(parsed.value), F)
       ELSE h

\* a connection handler that greets the browser only when the upstream is open
onConnectionGreetsWhenUp(r, h, c) ==
    LET r1 == sendOrQueue(ensureVmcConnection(r), statusCommand)
    IN [relay |-> r1,
        hub |-> IF r1.wire # <<>>
                THEN clientSend(h, c, JSONstringify(backendStatus), {})
                ELSE h]

\* a connection handler that queues or sends the probe without ensureVmcConnection
onConnectionSkipsEnsure(r, h, c) ==
    [relay |-> sendOrQueue(r, statusCommand),
     hub |-> clientSend(h, c, JSONstringify(backendStatus), {})]

\* wss.on('connection', (ws) => ...) for the socket c, which ws has registered
onConnection(r, h, c) ==
    [relay |-> sendOrQueue(ensureVmcConnection(r), statusCommand),
     hub |-> clientSend(h, c, JSONstringify(backendStatus), {})]

\* wss.clients in iteration (insertion) order
NumClients == Cardinality({c \in ClientIds : clientState[c] # "NONE"})
clients == [i \in 1..NumClients |-> i]
OpenClients == {c \in ClientIds : clientState[c] = "OPEN"}

\* wss.clients.delete(c): the sockets added after c move up one place
Remove(cs, c) ==
    [d \in ClientIds |-> IF d < c THEN cs[d]
                         ELSE IF d < MaxClients THEN cs[d + 1] ELSE "NONE"]

\* ------------------------------------------------------------- /api/pay
\* values req.body.items can take
Undefined == [kind |-> "undefined"]
JsArray(elems) == [kind |-> "array", elems |-> elems]
JsNumber(n) == [kind |-> "number", val |-> n]
Null == [kind |-> "null"]
ItemsInputs == {Undefined, Null, JsArray(<<>>), JsArray(<<7>>), JsNumber(0), JsNumber(7)}

Truthy(v) == v.kind = "number" /\ v.val # 0

\* Array.isArray(items) ? items : (items ? [items] : [])
ItemArray(items) ==
    IF items.kind = "array" THEN items.elems
    ELSE IF Truthy(items) THEN <<items.val>> ELSE <<>>

\* a handler that opens the upstream before it looks at the items
payValidatesLate(r, items) ==
    LET itemArray == ItemArray(items)
        r1 == ensureVmcConnection(r)
    IN IF Len(itemArray) = 0
       THEN [relay |-> r1, res |-> [status |-> 400, error |-> "items array required"]]
       ELSE [relay |-> sendOrQueue(r1, [type |-> "vend", items |-> itemArray]),
             res |-> [status |-> 200, ok |-> TRUE, requestedItems |-> itemArray]]

\* app.post('/api/pay', ...)
payHandler(r, items) ==
    LET itemArray == ItemArray(items)
    IN IF Len(itemArray) = 0
       THEN [relay |-> r, res |-> [status |-> 400, error |-> "items array required"]]
       ELSE [relay |-> sendOrQueue(ensureVmcConnection(r),
                                   [type |-> "vend", items |-> itemArray]),
             res |-> [status |-> 200, ok |-> TRUE, requestedItems |-> itemArray]]

\* -------------------------------------------------------------- actions
\* server.listen(PORT, () => { ensureVmcConnection() })
ServerListen ==
    /\ ~listening
    /\ listening' = TRUE
    /\ SetRelay(ensureVmcConnection(Relay))
    /\ HubIdle /\ NoResponse
    /\ UNCHANGED uiVars

\* the upstream socket s opens
VmcOpen(s) ==
    /\ ~crashed
    /\ sock[s] = "CONNECTING"
    /\ SetRelay(onOpen([Relay EXCEPT !.sock[s] = "OPEN"]))
    /\ HubIdle /\ NoResponse
    /\ UNCHANGED <<listening, uiVars>>

\* the connection attempt of s fails: ws emits 'error' and then 'close'
VmcConnectFail(s) ==
    /\ ~crashed
    /\ sock[s] = "CONNECTING"
    /\ CanSchedule(Relay)
    /\ LET r1 == onError([Relay EXCEPT !.sock[s] = "CLOSING"])
       IN SetRelay(onClose([r1 EXCEPT !.sock[s] = "CLOSED"]))
    /\ HubIdle /\ NoResponse
    /\ UNCHANGED <<listening, uiVars>>

\* a transport or protocol error on the open socket s
VmcError(s) ==
    /\ ~crashed
    /\ sock[s] = "OPEN"
    /\ CanSchedule(Relay)
    /\ SetRelay(onError([Relay EXCEPT !.sock[s] = "CLOSING"]))
    /\ HubIdle /\ NoResponse
    /\ UNCHANGED <<listening, uiVars>>

\* the connection of s is closed
VmcClose(s) ==
    /\ ~crashed
    /\ sock[s] \in {"OPEN", "CLOSING"}
    /\ CanSchedule(Relay)
    /\ SetRelay(onClose([Relay EXCEPT !.sock[s] = "CLOSED"]))
    /\ HubIdle /\ NoResponse
    /\ UNCHANGED <<listening, uiVars>>

\* a reconnect timer fires
TimerFire ==
    /\ ~crashed
    /\ timers > 0
    /\ LET r1 == [Relay EXCEPT !.timers = @ - 1]
       IN /\ CanEnsure(r1)
          /\ SetRelay(onTimer(r1))
    /\ HubIdle /\ NoResponse
    /\ UNCHANGED <<listening, uiVars>>

\* a frame arrives on the open upstream socket s; the writes to the clients in F fail
VmcMessage(s, data, F) ==
    /\ ~crashed
    /\ sock[s] = "OPEN"
    /\ SetHub([onMessage(Hub, clients, data, F) EXCEPT !.received = data])
    /\ RelayIdle /\ NoResponse
    /\ UNCHANGED <<listening, uiVars>>

\* wss.on('connection', ...): ws has added the socket to wss.clients
ClientConnect(c) ==
    /\ listening /\ ~crashed
    /\ NumClients < MaxClients
    /\ c = NumClients + 1
    /\ CanEnsure(Relay)
    /\ LET out == onConnection(Relay, [Hub EXCEPT !.clientState[c] = "OPEN"], c)
       IN /\ Len(out.relay.queue) <= MaxQueue
          /\ SetRelay(out.relay)
          /\ SetHub(out.hub)
    /\ NoResponse
    /\ UNCHANGED <<listening, uiVars>>

\* the downstream socket c starts closing
ClientClosing(c) ==
    /\ ~crashed
    /\ clientState[c] = "OPEN"
    /\ SetHub([Hub EXCEPT !.clientState[c] = "CLOSING"])
    /\ RelayIdle /\ NoResponse
    /\ UNCHANGED <<listening, uiVars>>

\* the downstream socket c is closed: ws removes it from wss.clients
ClientClosed(c) ==
    /\ ~crashed
    /\ clientState[c] # "NONE"
    /\ SetHub([Hub EXCEPT !.clientState = Remove(clientState, c)])
    /\ RelayIdle /\ NoResponse
    /\ UNCHANGED <<listening, uiVars>>

\* POST /api/pay with body.items = items
Pay(items) ==
    /\ listening /\ ~crashed
    /\ Len(ItemArray(items)) # 0 => CanEnsure(Relay)
    /\ LET out == payHandler(Relay, items)
       IN /\ Len(out.relay.queue) <= MaxQueue
          /\ SetRelay(out.relay)
          /\ res' = out.res
    /\ HubIdle
    /\ UNCHANGED <<listening, uiVars>>

Next ==
    \/ ServerListen
    \/ \E s \in Slots : VmcOpen(s)
    \/ \E s \in Slots : VmcConnectFail(s)
    \/ \E s \in Slots : VmcError(s)
    \/ \E s \in Slots : VmcClose(s)
    \/ TimerFire
    \/ \E s \in Slots, data \in VmcFrames, F \in SUBSET OpenClients : VmcMessage(s, data, F)
    \/ \E c \in ClientIds : ClientConnect(c)
    \/ \E c \in ClientIds : ClientClosing(c)
    \/ \E c \in ClientIds : ClientClosed(c)
    \/ \E items \in ItemsInputs : Pay(items)

Spec == Init /\ [][Next]_vars

\* the event loop runs every due timer, a socket that is closing ends closed, and a
\* connection attempt that the VMC does not refuse is accepted
LiveSpec ==
    /\ Spec
    /\ WF_vars(TimerFire)
    /\ \A s \in Slots : WF_vars(VmcOpen(s))
    /\ \A s \in Slots : WF_vars(sock[s] = "CLOSING" /\ VmcClose(s))

\* ------------------------------------------------- the browser (App.tsx)
\* the state of the Products component as one value; shown records the toast text the
\* handler displays
Ui ==
    [isVending |-> isVending, activeMessage |-> activeMessage, modal |-> modal,
     toastTimeout |-> toastTimeout, modalTimer |-> modalTimer, timerToast |-> timerToast,
     shown |-> ""]

closedModal == [open |-> FALSE, stage |-> "idle", text |-> ""]

\* The handler is created by an effect with an empty dependency list, so the `modal' it
\* reads is the one of the first render, whatever the overlay shows by now.
closureModal == closedModal

\* msg.f of a parsed JSON object: a field the object lacks reads as undefined
Has(msg, f) == f \in DOMAIN msg
TypeIs(msg, type) == Has(msg, "type") /\ msg.type = type

\* setActiveMessage(text)
setActiveMessage(u, text) == [u EXCEPT !.activeMessage = text, !.shown = text]

\* function showToast(text): the previous timeout is cleared and a new one is armed
showToast(u, text) ==
    [setActiveMessage(u, text) EXCEPT !.toastTimeout = TRUE, !.timerToast = text]

\* the callback of connectBackendWS in Products
handleMessage(u, msg) ==
    IF TypeIs(msg, "status")
    THEN IF Has(msg, "status") /\ msg.status = "vending"
         THEN [setActiveMessage(u, IF Has(msg, "message") THEN msg.message
                                   ELSE "Vending started")
                  EXCEPT !.isVending = TRUE,
                         !.modal = [open |-> TRUE, stage |-> "vending",
                                    text |-> "Vending in progress..."]]
         ELSE LET u1 == [setActiveMessage(u, "") EXCEPT !.isVending = FALSE]
              IN IF closureModal.stage # "complete"
                 THEN [u1 EXCEPT !.modal = [@ EXCEPT !.open = FALSE, !.stage = "idle",
                                                     !.text = ""]]
                 ELSE u1
    ELSE IF TypeIs(msg, "vend-response")
    THEN IF Has(msg, "success") /\ msg.success
         THEN [setActiveMessage(u, "Vending started")
                  EXCEPT !.isVending = TRUE,
                         !.modal = [open |-> TRUE, stage |-> "vending",
                                    text |-> "Vending started..."]]
         ELSE showToast([u EXCEPT !.isVending = FALSE],
                        IF Has(msg, "message") /\ msg.message # "" THEN msg.message
                        ELSE "Machine busy")
    ELSE IF TypeIs(msg, "vend-complete")
    THEN showToast([u EXCEPT !.isVending = FALSE,
                             !.modal = [open |-> TRUE, stage |-> "complete",
                                        text |-> "Vending complete!"],
                             !.modalTimer = TRUE],
                   "Vending complete")
    ELSE u

\* the 'message' listener of connectBackendWS: what JSON.parse or the callback throws is
\* ignored (the callback throws on null, before it changes anything)
onWsMessage(u, frame) ==
    LET parsed == JSONparse(frame)
    IN IF ~parsed.ok \/ parsed.value = Null THEN u ELSE handleMessage(u, parsed.value)

\* the callback of the timeout set by showToast
onToastTimeout(u) ==
    [u EXCEPT !.activeMessage = "", !.toastTimeout = FALSE, !.timerToast = ""]

\* a dismiss callback that forgets to close the overlay
onModalTimeoutKeepsOverlay(u) == [u EXCEPT !.modalTimer = FALSE]

\* the callback of the timeout set on vend-complete
onModalTimeout(u) == [u EXCEPT !.modal = closedModal, !.modalTimer = FALSE]

\* the phase the component shows
phase(u) ==
    IF u.modal.open /\ u.modal.stage = "complete" THEN "Complete"
    ELSE IF u.isVending THEN "Vending" ELSE "Idle"

\* frames the relay delivers to the browser
BackendFrames ==
    { JSONstringify([type |-> "status", status |-> "vending"]),
      JSONstringify([type |-> "status", status |-> "vending", message |-> "Dispensing",
                     firmware |-> "2.1"]),
      JSONstringify([type |-> "status", status |-> "idle"]),
      JSONstringify([type |-> "status", status |-> "paused"]),
      JSONstringify([type |-> "vend-response", success |-> TRUE]),
      JSONstringify([type |-> "vend-response", success |-> FALSE,
                     message |-> "Out of stock"]),
      JSONstringify([type |-> "vend-response", success |-> FALSE]),
      JSONstringify([type |-> "vend-complete", status |-> "idle"]),
      JSONstringify(backendStatus),
      JSONstringify(Null),
      [wellFormed |-> FALSE, text |-> "garbage", spaced |-> FALSE] }

SetUi(u, kind, data) ==
    /\ isVending' = u.isVending
    /\ activeMessage' = u.activeMessage
    /\ modal' = u.modal
    /\ toastTimeout' = u.toastTimeout
    /\ modalTimer' = u.modalTimer
    /\ timerToast' = u.timerToast
    /\ log' = Append(log, [kind |-> kind, data |-> data, phase |-> phase(u),
                           toast |-> u.shown])
    /\ UNCHANGED serverVars

\* a frame of the relay arrives at the browser
BackendMessage(frame) ==
    /\ Len(log) < MaxSteps
    /\ SetUi(onWsMessage(Ui, frame), "message", frame)

\* the toast timeout fires
ToastTimeout ==
    /\ Len(log) < MaxSteps
    /\ toastTimeout
    /\ SetUi(onToastTimeout(Ui), "toast-timeout", NoFrame)

\* the overlay's dismiss timeout fires
ModalTimeout ==
    /\ Len(log) < MaxSteps
    /\ modalTimer
    /\ SetUi(onModalTimeout(Ui), "modal-timeout", NoFrame)

\* the user presses the button of the overlay, which it shows in every stage but vending
CloseClick ==
    /\ Len(log) < MaxSteps
    /\ modal.open /\ modal.stage # "vending"
    /\ SetUi([Ui EXCEPT !.modal = closedModal], "close-click", NoFrame)

\* the user presses a product's pay button: onPay sets isVending before the request
PayClick ==
    /\ Len(log) < MaxSteps
    /\ SetUi([Ui EXCEPT !.isVending = TRUE], "pay-click", NoFrame)

ClientNext ==
    \/ \E frame \in BackendFrames : BackendMessage(frame)
    \/ ToastTimeout
    \/ ModalTimeout
    \/ CloseClick
    \/ PayClick

ClientSpec == Init /\ [][ClientNext]_vars

\* ------------------------------------------------------------ properties
LiveSockets == {s \in Slots : sock[s] \in {"CONNECTING", "OPEN"}}
Connecting == vmcSocket # NULL /\ sock[vmcSocket] = "CONNECTING"
Connected == vmcConnected /\ vmcSocket # NULL /\ sock[vmcSocket] = "OPEN"
\* a step creates a socket: no handler both creates one and lets one leave CONNECTING
SocketCreated ==
    Cardinality({s \in Slots : sock'[s] = "CONNECTING"})
        > Cardinality({s \in Slots : sock[s] = "CONNECTING"})
\* the steps that call ensureVmcConnection
CallsEnsure ==
    \/ ServerListen
    \/ TimerFire
    \/ \E c \in ClientIds : ClientConnect(c)
    \/ \E items \in ItemsInputs : Len(ItemArray(items)) # 0 /\ Pay(items)
\* the VMC refuses or drops a connection
VmcDrops ==
    \E s \in Slots : VmcConnectFail(s) \/ VmcError(s) \/ (sock[s] = "OPEN" /\ VmcClose(s))

\* C1: the relay never holds two upstream sockets that are connecting or open at once
AtMostOneLiveSocket == Cardinality(LiveSockets) <= 1

\* C2: at most one reconnect timer is pending at any time
AtMostOneReconnectTimer == timers <= 1

\* C3: when the upstream becomes connected, every queued command is transmitted to the
\* VMC, once and in the order it was queued, and the queue is left empty
QueueFlushedInOrderOnConnect ==
    [][(~vmcConnected /\ vmcConnected') =>
          (pendingMessagesQueue' = <<>> /\ wire' = pendingMessagesQueue)]_vars

\* C4: no command is ever handed to send() on an upstream socket that is not open
NoCommandDropped == dropped = <<>>

\* C5: ensureVmcConnection creates no socket while a connection attempt is in progress
\* or a reconnect timer (other than the one that is firing) is armed
NoAttemptWhileConnectingOrArmed ==
    [][SocketCreated => (~Connecting /\ timers' = 0)]_vars

\* C6: a call of ensureVmcConnection while the upstream is connected creates no socket,
\* leaves exactly one live connection and leaves the flags and the queue unchanged
EnsureIdempotentWhenConnected ==
    [][(Connected /\ CallsEnsure) =>
          (/\ ~SocketCreated
           /\ Cardinality(LiveSockets') = 1
           /\ UNCHANGED <<vmcConnected, vmcReconnectScheduled, pendingMessagesQueue>>)]_vars

\* C7: if from some point on the VMC neither refuses nor drops connections, the relay
\* ends connected for good with the pending queue drained
EventuallyConnectedAndDrained ==
    <>[][~VmcDrops]_vars => <>[](~crashed /\ Connected /\ pendingMessagesQueue = <<>>)

\* the frame the relay writes for a well-formed frame it received
Forwarded(data) == JSONstringify(JSONparse(data).value)
ForwardedFrames == {Forwarded(data) : data \in {f \in VmcFrames : f.wellFormed}}

\* C8: a broadcast delivers the event to every client that is open when it is called and
\* leaves alone, without failing, every client that is not
BroadcastReachesEveryOpenClient ==
    [][\A data \in VmcFrames, F \in SUBSET OpenClients :
          (/\ received' = data /\ data.wellFormed /\ res'.status = 0 /\ vmcSocket' = vmcSocket
           /\ \E s \in Slots : VmcMessage(s, data, F)) =>
              /\ crashed' = crashed
              /\ \A c \in ClientIds :
                    /\ (clientState[c] = "OPEN" /\ c \notin F) => inbox'[c] = <<Forwarded(data)>>
                    /\ clientState[c] # "OPEN" =>
                          (inbox'[c] = <<>> /\ clientState'[c] = clientState[c])]_vars

\* C8 happens: an event reached an open client registered after one that is closing
BroadcastSkippedClosingClient ==
    \E c, d \in ClientIds :
        /\ c < d /\ clientState[c] = "CLOSING" /\ c \notin sendFailed /\ inbox[c] = <<>>
        /\ clientState[d] = "OPEN" /\ Len(inbox[d]) = 1 /\ inbox[d][1] \in ForwardedFrames

\* C9: when the write to one client fails during a broadcast, every other open client
\* still gets the event and nothing is thrown to the caller
SendFailureIsIsolated ==
    [][\A data \in VmcFrames, F \in SUBSET OpenClients :
          (/\ received' = data /\ data.wellFormed /\ F # {} /\ res'.status = 0 /\ vmcSocket' = vmcSocket
           /\ \E s \in Slots : VmcMessage(s, data, F)) =>
              /\ crashed' = FALSE
              /\ sendFailed' = F
              /\ \A c \in OpenClients \ F : inbox'[c] = <<Forwarded(data)>>]_vars

\* C9 happens: a write failed and a client registered later got the event
BroadcastSurvivedSendFailure ==
    \E c, d \in ClientIds :
        /\ c < d /\ c \in sendFailed
        /\ Len(inbox[d]) = 1 /\ inbox[d][1] \in ForwardedFrames

\* the request carries no items, or an empty list of them
MissingOrEmpty(items) ==
    items.kind \in {"undefined", "null"} \/ (items.kind = "array" /\ items.elems = <<>>)

\* C10: a vend request with missing or empty items is answered 400 and touches nothing:
\* no socket, nothing sent upstream, queue and flags as they were
InvalidVendRejectedWithoutEffect ==
    [][\A items \in ItemsInputs :
          (MissingOrEmpty(items) /\ Pay(items)) =>
              /\ res'.status = 400
              /\ UNCHANGED relayVars
              /\ wire' = <<>> /\ dropped' = <<>>]_vars

\* C10 happens: a request was rejected while the upstream was down
InvalidVendWasRejected == res.status = 400 /\ ~vmcConnected /\ listening

\* the request carries a non-empty list of items, or a single item
NonEmptyItems(items) ==
    (items.kind = "array" /\ items.elems # <<>>) \/ (items.kind = "number" /\ items.val # 0)
\* the vend command the request asks for
vendCommand(items) ==
    [type |-> "vend", items |-> IF items.kind = "array" THEN items.elems ELSE <<items.val>>]

\* C11: a vend request with items is accepted at once whatever the upstream state and
\* yields exactly one vend command: transmitted, with the queue unchanged, when the
\* upstream is connected; appended to the tail of the queue, with nothing transmitted,
\* when it is not
VendAcceptedAndRoutedOnce ==
    [][\A items \in ItemsInputs :
          (NonEmptyItems(items) /\ Pay(items)) =>
              /\ res' = [status |-> 200, ok |-> TRUE,
                         requestedItems |-> vendCommand(items).items]
              /\ ~crashed' /\ dropped' = <<>>
              /\ IF Connected
                 THEN /\ wire' = <<vendCommand(items)>>
                      /\ pendingMessagesQueue' = pendingMessagesQueue
                 ELSE /\ wire' = <<>>
                      /\ pendingMessagesQueue' =
                            Append(pendingMessagesQueue, vendCommand(items))]_vars

\* C11 happens: an accepted vend joined the queue behind an earlier command
VendQueuedBehindEarlierCommand ==
    /\ res.status = 200 /\ wire = <<>>
    /\ Len(pendingMessagesQueue) = 2
    /\ pendingMessagesQueue[2].type = "vend"

\* the relay's acknowledgement frame
ackFrame == JSONstringify([type |-> "backend-status", message |-> "connected"])

\* C12: a new downstream connection is sent exactly one backend-status acknowledgement,
\* in the step that accepts it and whatever the upstream state, and no other client
\* receives it
NewClientGetsOneAck ==
    [][\A c \in ClientIds :
          (clientState[c] = "NONE" /\ ClientConnect(c)) =>
              /\ inbox'[c] = <<ackFrame>>
              /\ \A d \in ClientIds \ {c} : inbox'[d] = <<>>]_vars

\* C12 happens: a second client was acknowledged while the upstream was down and the
\* first one stayed registered
SecondClientAckedWhileUpstreamDown ==
    /\ clientState[1] = "OPEN" /\ inbox[1] = <<>>
    /\ clientState[2] = "OPEN" /\ inbox[2] = <<ackFrame>>
    /\ ~vmcConnected /\ sock[vmcSocket] = "CONNECTING"

\* C13: a new downstream connection calls ensureVmcConnection (a socket is created
\* unless the upstream is connected) and issues exactly one status probe: transmitted at
\* once when the upstream is connected, appended to the tail of the queue when it is not
NewClientProbesOnce ==
    [][\A c \in ClientIds :
          (clientState[c] = "NONE" /\ ClientConnect(c)) =>
              /\ ~crashed' /\ dropped' = <<>>
              /\ IF Connected
                 THEN /\ ~SocketCreated
                      /\ wire' = <<statusCommand>>
                      /\ pendingMessagesQueue' = pendingMessagesQueue
                 ELSE /\ SocketCreated
                      /\ wire' = <<>>
                      /\ pendingMessagesQueue' =
                            Append(pendingMessagesQueue, statusCommand)]_vars

\* C13 happens: the probe of a new client went straight to the connected upstream
ProbeTransmittedAtOnce ==
    /\ wire = <<statusCommand>> /\ pendingMessagesQueue = <<>>
    /\ \E c \in ClientIds : inbox[c] = <<ackFrame>>

\* C14: a frame of the upstream that is not JSON is discarded silently: no client
\* receives anything, nothing is thrown, the flags, the queue and the client set stay as
\* they were, and the socket stays open with its handler in place, so that a
\* well-formed frame that follows is still relayed
MalformedFrameDiscarded ==
    [][\A data \in VmcFrames, F \in SUBSET OpenClients :
          (/\ received' = data /\ ~data.wellFormed /\ res'.status = 0 /\ vmcSocket' = vmcSocket
           /\ \E s \in Slots : VmcMessage(s, data, F)) =>
              /\ \A c \in ClientIds : inbox'[c] = <<>>
              /\ sendFailed' = {}
              /\ ~crashed'
              /\ UNCHANGED <<relayVars, hubVars>>
              /\ \E s \in Slots : sock'[s] = "OPEN"]_vars

\* C14 happens: a malformed frame arrived while a client was open, and the client got
\* nothing
MalformedFrameReachedNoClient ==
    /\ received \in VmcFrames /\ ~received.wellFormed
    /\ \E c \in ClientIds : clientState[c] = "OPEN" /\ inbox[c] = <<>>

\* the event kinds of the upstream protocol
KnownTypes == {"status", "vend-response", "vend-complete"}

\* C15: a frame of the upstream reaches the clients only if its type is one of the known
\* event kinds, and then with the content it arrived with; a well-formed frame of another
\* type reaches no client
OnlyKnownEventsForwarded ==
    [][\A data \in VmcFrames, F \in SUBSET OpenClients :
          (/\ received' = data /\ res'.status = 0 /\ vmcSocket' = vmcSocket
           /\ \E s \in Slots : VmcMessage(s, data, F)) =>
              \A c \in ClientIds :
                 \/ inbox'[c] = <<>>
                 \/ /\ data.wellFormed /\ data.text.type \in KnownTypes
                    /\ Len(inbox'[c]) = 1
                    /\ JSONparse(inbox'[c][1]) = JSONparse(data)]_vars

\* events of the relay, as the browser parses them
statusVending == [type |-> "status", status |-> "vending"]
statusIdle == [type |-> "status", status |-> "idle"]
vendComplete == [type |-> "vend-complete", status |-> "idle"]
IsEvent(e, value) == e.kind = "message" /\ e.data = JSONstringify(value)
NotToastTimeout(e) == e.kind # "toast-timeout"
\* the session so far is status(vending), vend-complete and the dismiss timeout, with
\* no other event (the toast's own timeout may have fired in between)
VendingCompleteDismissed ==
    LET events == SelectSeq(log, NotToastTimeout)
    IN /\ Len(events) = 3
       /\ IsEvent(events[1], statusVending)
       /\ IsEvent(events[2], vendComplete)
       /\ events[3].kind = "modal-timeout"

\* C16: from Idle, the events status(vending), vend-complete and then the dismiss
\* timeout take the phase through Idle, Vending, Complete, Idle, the overlay ends
\* closed, and exactly one toast reading 'Vending complete' is shown
VendingThenCompleteRunsThePhases ==
    /\ log = <<>> => phase(Ui) = "Idle"
    /\ VendingCompleteDismissed =>
          LET events == SelectSeq(log, NotToastTimeout)
          IN /\ [i \in 1..3 |-> events[i].phase] = <<"Vending", "Complete", "Idle">>
             /\ \A i \in 2..Len(log) :
                   log[i].kind = "toast-timeout" => log[i].phase = log[i - 1].phase
             /\ phase(Ui) = "Idle" /\ ~modal.open
             /\ Cardinality({i \in 1..Len(log) : log[i].toast = "Vending complete"}) = 1

\* C16 happens: the three steps ran and the toast is still on display
VendingCompleteRanToIdle ==
    VendingCompleteDismissed /\ Len(log) = 3 /\ activeMessage = "Vending complete"

CompleteShowing == modal.open /\ modal.stage = "complete"

\* C17: a status(idle) that arrives while the Complete overlay is showing leaves the
\* overlay as it is; in any other phase it sets the phase to Idle, clears the toast and
\* closes the overlay
StrayIdleKeepsCompleteOverlay ==
    [][BackendMessage(JSONstringify(statusIdle)) =>
          IF CompleteShowing
          THEN modal' = modal
          ELSE ~isVending' /\ ~modal'.open /\ activeMessage' = ""]_vars

\* the reason a failed vend-response carries
FailureReason(value) ==
    IF Has(value, "message") /\ value.message # "" THEN value.message ELSE "Machine busy"

\* C18: from any state a vend-response with success=false turns the vending indicator
\* off, leaves no progress overlay showing, opens no overlay and shows the failure
\* reason (default 'Machine busy') as a transient toast; one with success=true turns the
\* indicator on and opens the progress overlay
VendResponseSetsPhase ==
    [][\A frame \in BackendFrames :
          (/\ frame.wellFormed /\ TypeIs(frame.text, "vend-response")
           /\ BackendMessage(frame)) =>
              IF frame.text.success
              THEN isVending' /\ modal'.open /\ modal'.stage = "vending"
              ELSE /\ ~isVending'
                   /\ ~(modal'.open /\ modal'.stage = "vending")
                   /\ modal'.open => modal.open
                   /\ activeMessage' = FailureReason(frame.text)
                   /\ toastTimeout']_vars

\* C19: every toast on display has a pending expiry timeout that was armed for it (so it
\* is cleared when its own time is up, and no timeout of an older toast clears it)
EveryToastExpiresOnItsOwnTimer ==
    activeMessage # "" => (toastTimeout /\ timerToast = activeMessage)

\* an event whose type, or whose status value, the browser does not know
Unrecognized(value) ==
    \/ ~Has(value, "type")
    \/ value.type \notin KnownTypes
    \/ value.type = "status" /\ (~Has(value, "status")
                                    \/ value.status \notin {"idle", "vending"})

\* C20: an event of unrecognized shape leaves the vending indicator, the toast, the
\* overlay and both timers as they were
UnrecognizedEventChangesNothing ==
    [][\A frame \in BackendFrames :
          (/\ frame.wellFormed /\ Unrecognized(frame.text)
           /\ BackendMessage(frame)) =>
              UNCHANGED <<isVending, activeMessage, modal, toastTimeout, modalTimer>>]_vars

\* the socket that commands are routed to is open
CurrentOpen == vmcSocket # NULL /\ sock[vmcSocket] = "OPEN"

\* C21: whenever the current vmcSocket is open the pending queue is empty, so that no
\* command waits in the queue while commands are sent directly
QueueEmptyWhileCurrentOpen == CurrentOpen => pendingMessagesQueue = <<>>

\* C21 happens: the current socket opened and its handler flushed two queued commands
CurrentOpenedAndFlushed ==
    CurrentOpen /\ vmcConnected /\ Len(wire) = 2 /\ pendingMessagesQueue = <<>>

\* C22: vmcConnected is true exactly when the socket vmcSocket refers to is open
FlagAgreesWithCurrentSocket == vmcConnected <=> CurrentOpen

\* C23: once the server listens, a relay that is not connected has a reconnect timer
\* pending or a connection attempt in progress, and a raised vmcReconnectScheduled has
\* a pending timer behind it
NeverIdleWhileDisconnected ==
    /\ (listening /\ ~vmcConnected) => (timers > 0 \/ Connecting)
    /\ vmcReconnectScheduled => timers > 0

\* C23 happens: the upstream is down with no attempt in progress, and only the armed
\* timer will bring it back
OnlyTheTimerReconnects ==
    /\ listening /\ ~vmcConnected /\ vmcReconnectScheduled /\ timers = 1
    /\ \A s \in Slots : sock[s] \notin {"CONNECTING", "OPEN"}

\* C24: the dismiss timeout armed by vend-complete dismisses only a Complete overlay: when
\* it fires while the overlay shows anything else (a Vending overlay that a later event
\* opened), it leaves the overlay as it is
DismissTimerClosesOnlyComplete ==
    [][ModalTimeout => (CompleteShowing \/ modal' = modal)]_vars
====
